---- MODULE Spec2Model ----
(***************************************************************************)
(* Model of the fakeroot LD_PRELOAD shim (src/src/lib.rs): the hooks open, *)
(* open64, fopen and opendir, the path rewriting of get_fake_path, the     *)
(* root lookup of get_fake_root and the flag parsing of is_enabled.        *)
(*                                                                         *)
(* Strings are sequences of bytes (C strings, OsStrings), so that UTF-8    *)
(* decoding, the char-boundary check of a str slice and Path::join are     *)
(* computed as the code computes them.  An optional value is a sequence of *)
(* length 0 (None) or 1 (Some).                                            *)
(***************************************************************************)
EXTENDS Integers, Sequences, FiniteSets, TLC

VARIABLES
    env,        \* the process environment: key -> optional byte string
    fs,         \* the entries that exist on disk (canonical component lists)
    cur,        \* the intercepted call in flight: None, or Some(its record)
    firstRoot,  \* history: the outcome of the first FAKEROOT resolution
    probe       \* the last direct evaluation of is_enabled (unit test style)

vars == <<env, fs, cur, firstRoot, probe>>

----------------------------------------------------------------------------
\* Bounds of the model

\* longest path argument handed to a hook, in bytes
MaxPathLen == 3

----------------------------------------------------------------------------
\* Bytes and byte strings

\* the path separator '/'
SEP == 47

None == <<>>
Some(v) == <<v>>

\* byte strings up to length n over the bytes B
RECURSIVE StrUpTo(_, _)
StrUpTo(B, n) ==
    IF n = 0 THEN {<<>>}
    ELSE LET shorter == StrUpTo(B, n - 1)
         IN  shorter \cup {Append(s, b) : s \in {t \in shorter : Len(t) = n - 1}, b \in B}

\* the path arguments the host program passes to the hooks
\* '/', 'a', and the two bytes 0xC3 0xA9 of U+00E9: 0xC3 starts a two-byte
\* character and 0xA9 continues one, so that either alone is invalid UTF-8
PathBytes == {SEP, 97, 195, 169}
Paths == StrUpTo(PathBytes, MaxPathLen)

StrFalse == <<102, 97, 108, 115, 101>>   \* "false"
StrZero == <<48>>                         \* "0"
StrOne == <<49>>                          \* "1"
StrTrue == <<116, 114, 117, 101>>         \* "true"
StrAnything == <<97, 110, 121, 116, 104, 105, 110, 103>>  \* "anything"
StrFalseUpper == <<70, 97, 108, 115, 101>>  \* "False"
StrZeroZero == <<48, 48>>                 \* "00"
StrNotUnicode == <<169>>                  \* a value that is not valid UTF-8

RootR == <<SEP, 114>>                     \* "/r"
RootRel == <<114>>                        \* "r"

ENV_FAKEROOT == "FAKEROOT"
ENV_FAKEROOT_DIRS == "FAKEROOT_DIRS"
ENV_FAKEROOT_ALL == "FAKEROOT_ALL"
ENV_FAKEROOT_DEBUG == "FAKEROOT_DEBUG"
HOOK_TAG == "@HOOK@"

FlagKeys == {ENV_FAKEROOT_DIRS, ENV_FAKEROOT_ALL, ENV_FAKEROOT_DEBUG}
Keys == {ENV_FAKEROOT} \cup FlagKeys

----------------------------------------------------------------------------
\* Results

Ok(v) == [ok |-> TRUE, val |-> v, err |-> [text |-> "", arg |-> <<>>]]
Err(text, arg) == [ok |-> FALSE, val |-> <<>>, err |-> [text |-> text, arg |-> arg]]

----------------------------------------------------------------------------
\* str::from_utf8 and str slicing

IsContinuation(b) == b >= 128 /\ b <= 191

\* length of the UTF-8 sequence a first byte announces; 0 when no sequence
\* may start with it
Utf8Width(b) ==
    IF b < 128 THEN 1
    ELSE IF b >= 194 /\ b <= 223 THEN 2
    ELSE IF b >= 224 /\ b <= 239 THEN 3
    ELSE IF b >= 240 /\ b <= 244 THEN 4
    ELSE 0

RECURSIVE Utf8ValidFrom(_, _)
Utf8ValidFrom(s, i) ==
    IF i > Len(s) THEN TRUE
    ELSE LET w == Utf8Width(s[i])
         IN  /\ w > 0
             /\ i + w - 1 <= Len(s)
             /\ \A j \in (i + 1)..(i + w - 1) : IsContinuation(s[j])
             /\ Utf8ValidFrom(s, i + w)

from_utf8_ok(s) == Utf8ValidFrom(s, 1)

\* str::is_char_boundary(index), index counted from 0
is_char_boundary(s, index) ==
    \/ index = 0
    \/ index = Len(s)
    \/ index < Len(s) /\ ~IsContinuation(s[index + 1])

\* &s[1..] panics unless 1 is a char boundary of s
SliceFrom1Panics(s) == ~is_char_boundary(s, 1)
SliceFrom1(s) == SubSeq(s, 2, Len(s))

----------------------------------------------------------------------------
\* Paths and the disk

\* the components of a path, empty ones dropped (what path resolution sees)
RECURSIVE Components(_, _, _)
Components(p, i, acc) ==
    IF i > Len(p) THEN (IF acc = <<>> THEN <<>> ELSE <<acc>>)
    ELSE IF p[i] = SEP
         THEN (IF acc = <<>> THEN <<>> ELSE <<acc>>) \o Components(p, i + 1, <<>>)
         ELSE Components(p, i + 1, Append(acc, p[i]))

is_absolute(p) == Len(p) > 0 /\ p[1] = SEP

\* the entries the disk may hold: the directory /r and the file /r/a
DirR == <<<<114>>>>
FileRA == <<<<114>>, <<97>>>>
FsDirs == {DirR}
FsFiles == {FileRA}
FsStates == {{}, {DirR}, {DirR, FileRA}}

\* Path::exists of an absolute path: stat succeeds
exists(disk, p) ==
    LET c == Components(p, 1, <<>>)
    IN  \/ c = <<>>
        \/ /\ c \in disk
           /\ (p[Len(p)] = SEP => c \in FsDirs)

\* Path::join(root, rest): an absolute rest replaces root
join(root, rest) ==
    IF is_absolute(rest) THEN rest
    ELSE IF root # <<>> /\ root[Len(root)] # SEP THEN root \o <<SEP>> \o rest
    ELSE root \o rest

----------------------------------------------------------------------------
\* The environment

\* env::var(key): the value, decoded; an error when the key is absent or the
\* value is not valid Unicode
env_var(e, key) ==
    IF e[key] = None THEN Err("environment variable not found", <<>>)
    ELSE IF ~from_utf8_ok(e[key][1])
         THEN Err("environment variable was not valid unicode", <<>>)
         ELSE Ok(e[key][1])

\* is_enabled with the comparison against "0" forgotten
is_enabled_no_zero(e, env_key) ==
    LET v == env_var(e, env_key)
    IN  IF v.ok THEN v.val # StrFalse ELSE FALSE

is_enabled(e, env_key) ==
    LET v == env_var(e, env_key)
    IN  IF v.ok THEN v.val # StrFalse /\ v.val # StrZero ELSE FALSE

\* get_fake_root with the check that the root exists on disk forgotten
get_fake_root_no_exists(e, disk) ==
    LET v == env_var(e, ENV_FAKEROOT)
    IN  IF v.ok
        THEN IF is_absolute(v.val)
             THEN [res |-> Ok(v.val), stats |-> <<>>]
             ELSE [res |-> Err("FAKEROOT is not absolute", <<>>), stats |-> <<>>]
        ELSE [res |-> Err(v.err.text, <<>>), stats |-> <<>>]

\* get_fake_root: the outcome, and the paths it stats
get_fake_root(e, disk) ==
    LET v == env_var(e, ENV_FAKEROOT)
    IN  IF v.ok
        THEN IF is_absolute(v.val)
             THEN IF exists(disk, v.val)
                  THEN [res |-> Ok(v.val), stats |-> <<v.val>>]
                  ELSE [res |-> Err("FAKEROOT does not exist on disk", <<>>),
                        stats |-> <<v.val>>]
             ELSE [res |-> Err("FAKEROOT is not absolute", <<>>), stats |-> <<>>]
        ELSE [res |-> Err(v.err.text, <<>>), stats |-> <<>>]

\* const FAKEROOT_ROOT: OnceCell<..> = OnceCell::new(): a const item is
\* instantiated anew at every place that names it, so the cell named in
\* get_fake_path is an empty cell on every call
FAKEROOT_ROOT == None
\* const FAKEROOT_DEBUG: OnceCell<bool> = OnceCell::new(): likewise
FAKEROOT_DEBUG == None

\* OnceCell::get_or_init: the value held, or else the value computed by init
get_or_init(cell, init) == IF cell = None THEN init ELSE cell[1]

\* log!: the lines written to stderr (none unless debugging is enabled)
MappingLine(from, to) ==
    [tag |-> HOOK_TAG, kind |-> "mapping", text |-> " => ", a |-> from, b |-> to]
ReasonLine(err) ==
    [tag |-> HOOK_TAG, kind |-> "reason", text |-> err.text, a |-> err.arg, b |-> <<>>]
log(e, line) ==
    IF get_or_init(FAKEROOT_DEBUG, is_enabled(e, ENV_FAKEROOT_DEBUG))
    THEN <<line>> ELSE <<>>

----------------------------------------------------------------------------
\* get_fake_path

\* What one evaluation of get_fake_path does: its result (or a panic in
\* &path_str[1..], which ends the hook: it unwinds into the extern "C" hook
\* function, where the process aborts), the lines log! writes to stderr, the
\* environment keys it reads, the paths it stats, and the outcome of the root
\* resolution it ran (None when it ran none).
FakePath(res, panic, lines, reads, stats, resolved) ==
    [res |-> res, panic |-> panic, lines |-> lines, reads |-> reads,
     stats |-> stats, resolved |-> resolved]

\* the part of get_fake_path after the root lookup; looked is what the
\* lookup through FAKEROOT_ROOT gave
fake_path_in_root(e, disk, path_str, looked) ==
    IF ~looked.res.ok
    THEN FakePath(Err(looked.res.err.text, <<>>), FALSE, <<>>, looked.reads,
                  looked.stats, looked.resolved)
    ELSE IF SliceFrom1Panics(path_str)
    THEN FakePath(Ok(<<>>), TRUE, <<>>, looked.reads,
                  looked.stats, looked.resolved)
    ELSE
    LET fake_path == join(looked.res.val, SliceFrom1(path_str))
        all == is_enabled(e, ENV_FAKEROOT_ALL)
        stats == IF all THEN looked.stats ELSE Append(looked.stats, fake_path)
        reads == Append(looked.reads, ENV_FAKEROOT_ALL)
    IN  IF ~all /\ ~exists(disk, fake_path)
        THEN FakePath(Err("not in fake root: ", path_str), FALSE, <<>>,
                      reads, stats, looked.resolved)
        ELSE FakePath(Ok(fake_path), FALSE,
                      log(e, MappingLine(path_str, fake_path)),
                      Append(reads, ENV_FAKEROOT_DEBUG), stats, looked.resolved)

\* FAKEROOT_ROOT.get_or_init(get_fake_root): the value of the cell, and what
\* computing it read (nothing when the cell already holds a value)
root_lookup(e, disk) ==
    IF FAKEROOT_ROOT = None
    THEN LET r == get_fake_root(e, disk)
         IN  [res |-> get_or_init(FAKEROOT_ROOT, r.res), stats |-> r.stats,
              reads |-> <<ENV_FAKEROOT>>, resolved |-> Some(r.res)]
    ELSE [res |-> FAKEROOT_ROOT[1], stats |-> <<>>,
          reads |-> <<>>, resolved |-> None]

\* (the root lookup is evaluated once and its outcome used throughout)
get_fake_path(e, disk, c_str) ==
    IF ~from_utf8_ok(c_str)
    THEN FakePath(Err("failed to read string: invalid utf-8", <<>>), FALSE,
                  <<>>, <<>>, <<>>, None)
    ELSE CHOOSE g \in {fake_path_in_root(e, disk, c_str, looked) :
                       looked \in {root_lookup(e, disk)}} : TRUE

----------------------------------------------------------------------------
\* do_hook and the hooks

\* The record of one intercepted call: what the hook was given, what
\* get_fake_path returned, whether the hook panicked, and the calls of the
\* original it made.
Call(kind, path, args, g, fwd, lines, reads) ==
    [kind |-> kind, path |-> path, args |-> args,
     res |-> g.res, panic |-> g.panic,
     calls |-> fwd, lines |-> lines, reads |-> reads,
     stats |-> g.stats, resolved |-> g.resolved]

\* real(before.., path, after..): one call of the original
Real(name, path, args) == <<[name |-> name, path |-> path, args |-> args]>>

\* the arms of the match in do_hook!, g being what get_fake_path returned;
\* condKeys are the keys that $cond asks is_enabled of ({} for `if true`)
do_hook_match(e, name, condKeys, path, args, g) ==
    IF g.panic
    THEN Call(name, path, args, g, <<>>, g.lines, g.reads)
    ELSE IF g.res.ok
    THEN LET cond == \A k \in condKeys : is_enabled(e, k)
             reads == g.reads \o (IF ENV_FAKEROOT_DIRS \in condKeys
                                  THEN <<ENV_FAKEROOT_DIRS>> ELSE <<>>)
         IN  IF cond
             THEN Call(name, path, args, g, Real(name, g.res.val, args), g.lines, reads)
             ELSE Call(name, path, args, g, Real(name, path, args), g.lines, reads)
    ELSE Call(name, path, args, g, Real(name, path, args),
              g.lines \o log(e, ReasonLine(g.res.err)),
              Append(g.reads, ENV_FAKEROOT_DEBUG))

\* do_hook!: get_fake_path is evaluated once and its result matched
do_hook(e, disk, name, condKeys, path, args) ==
    CHOOSE c \in {do_hook_match(e, name, condKeys, path, args, g) :
                  g \in {get_fake_path(e, disk, path)}} : TRUE

my_open(e, disk, path, flags, mode) == do_hook(e, disk, "open", {}, path, <<flags, mode>>)
my_open64(e, disk, path, flags, mode) == do_hook(e, disk, "open64", {}, path, <<flags, mode>>)
my_fopen(e, disk, path, mode) == do_hook(e, disk, "fopen", {}, path, mode)
\* the opendir hook with the FAKEROOT_DIRS condition forgotten
my_opendir_ungated(e, disk, path) == do_hook(e, disk, "opendir", {}, path, <<>>)
my_opendir(e, disk, path) == do_hook(e, disk, "opendir", {ENV_FAKEROOT_DIRS}, path, <<>>)

----------------------------------------------------------------------------
\* The state machine: the host program changes its environment and the
\* disk between calls, and calls the hooked functions

\* values the host program gives the variables
RootValues == {RootR, RootRel}
FlagValues == {StrFalse, StrZero, StrOne}
ProbeValues == {<<>>, StrFalse, StrZero, StrOne, StrTrue, StrAnything,
                StrFalseUpper, StrZeroZero, StrNotUnicode}
OpenFlags == {0, 1}
OpenModes == {0}
FopenModes == {<<114>>, <<119>>}   \* "r", "w"

Init ==
    /\ env = [k \in Keys |-> None]
    /\ fs = {}
    /\ cur = None
    /\ firstRoot = None
    /\ probe = None

\* The hook runs up to its call of the original.  With history, the
\* outcome of the first root resolution is recorded.
Enter(call, history) ==
    /\ cur' = Some(call)
    /\ firstRoot' = IF history /\ firstRoot = None THEN call.resolved ELSE firstRoot
    /\ UNCHANGED <<env, fs, probe>>

\* the host program, not inside a hook, calls a hooked function
open(history) ==
    /\ cur = None
    /\ \E path \in Paths, flags \in OpenFlags, mode \in OpenModes :
           Enter(my_open(env, fs, path, flags, mode), history)

open64(history) ==
    /\ cur = None
    /\ \E path \in Paths, flags \in OpenFlags, mode \in OpenModes :
           Enter(my_open64(env, fs, path, flags, mode), history)

fopen(history) ==
    /\ cur = None
    /\ \E path \in Paths, mode \in FopenModes :
           Enter(my_fopen(env, fs, path, mode), history)

opendir(history) ==
    /\ cur = None
    /\ \E path \in Paths :
           Enter(my_opendir(env, fs, path), history)

\* the original returns and so does the hook; a panic never returns
Return ==
    /\ cur # None
    /\ ~cur[1].panic
    /\ cur' = None
    /\ UNCHANGED <<env, fs, firstRoot, probe>>

SetEnv(k) ==
    \E v \in (IF k = ENV_FAKEROOT THEN RootValues ELSE FlagValues) :
        /\ cur = None
        /\ env' = [env EXCEPT ![k] = Some(v)]
        /\ UNCHANGED <<fs, cur, firstRoot, probe>>

UnsetEnv(k) ==
    /\ cur = None
    /\ env[k] # None
    /\ env' = [env EXCEPT ![k] = None]
    /\ UNCHANGED <<fs, cur, firstRoot, probe>>

setenv == \E k \in Keys : SetEnv(k)
unsetenv == \E k \in Keys : UnsetEnv(k)

\* the disk changes: mkdir /r, rmdir /r, creat /r/a, unlink /r/a
FsChange == \E d \in FsStates :
    /\ cur = None
    /\ d # fs
    /\ Cardinality(d) - Cardinality(fs) \in {-1, 1}
    /\ fs' = d
    /\ UNCHANGED <<env, cur, firstRoot, probe>>

Next ==
    \/ open(FALSE) \/ open64(FALSE) \/ fopen(FALSE) \/ opendir(FALSE)
    \/ Return \/ setenv \/ unsetenv \/ FsChange

Spec == Init /\ [][Next]_vars

\* The same program with the history of root resolutions recorded: firstRoot
\* is the outcome of the first resolution any call ran, the value a cell
\* initialised once would hold from then on.  Only FAKEROOT and the disk
\* change here.
setenvRoot == SetEnv(ENV_FAKEROOT)
unsetenvRoot == UnsetEnv(ENV_FAKEROOT)

NextMemo ==
    \/ open(TRUE) \/ open64(TRUE) \/ fopen(TRUE) \/ opendir(TRUE)
    \/ Return \/ setenvRoot \/ unsetenvRoot \/ FsChange

SpecMemo == Init /\ [][NextMemo]_vars

\* is_enabled on its own, over a wider set of values (tests::test_is_enabled)
setenvProbe == \E k \in Keys, v \in ProbeValues :
    /\ env' = [env EXCEPT ![k] = Some(v)]
    /\ probe' = None
    /\ UNCHANGED <<fs, cur, firstRoot>>

removeVarProbe == \E k \in Keys :
    /\ env[k] # None
    /\ env' = [env EXCEPT ![k] = None]
    /\ probe' = None
    /\ UNCHANGED <<fs, cur, firstRoot>>

isEnabledProbe == \E k \in Keys :
    /\ probe' = Some([key |-> k, result |-> is_enabled(env, k)])
    /\ UNCHANGED <<env, fs, cur, firstRoot>>

NextEnabled == setenvProbe \/ removeVarProbe \/ isEnabledProbe

SpecEnabled == Init /\ [][NextEnabled]_vars

----------------------------------------------------------------------------
\* What the claims speak of

InCall == cur # None
TheCall == cur[1]

\* the values of the flags as the call in flight saw them (the environment
\* and the disk do not change while a call is in flight)
RootSet == env[ENV_FAKEROOT] # None
R == env[ENV_FAKEROOT][1]
\* a valid shadow root: FAKEROOT set, absolute, existing
ValidRoot == RootSet /\ is_absolute(R) /\ exists(fs, R)
allowMissing == is_enabled(env, ENV_FAKEROOT_ALL)
dirsEnabled == is_enabled(env, ENV_FAKEROOT_DIRS)
debugEnabled == is_enabled(env, ENV_FAKEROOT_DEBUG)

\* R/P[1:]: the plain string join of R and P without its first byte
Candidate(P) == R \o <<SEP>> \o SubSeq(P, 2, Len(P))
\* a regular file exists at p
FileAt(p) == exists(fs, p) /\ Components(p, 1, <<>>) \in FsFiles
\* the original invoked once with the untouched path and arguments
Untouched(call) == Real(call.kind, call.path, call.args)
Range(seq) == {seq[i] : i \in DOMAIN seq}

\* C1: for every absolute path P and valid shadow root R with a file at
\* R/P[1:], open, open64 and fopen invoke the original with exactly R/P[1:].
C1_RedirectExact ==
    (/\ InCall
     /\ TheCall.kind \in {"open", "open64", "fopen"}
     /\ is_absolute(TheCall.path)
     /\ ValidRoot
     /\ FileAt(Candidate(TheCall.path)))
    => TheCall.calls = Real(TheCall.kind, Candidate(TheCall.path), TheCall.args)

\* C2: with a valid root and a decodable absolute path P, get_fake_path
\* returns the candidate R/P[1:] iff FAKEROOT_ALL is enabled or the candidate
\* exists; without either it fails with 'not in fake root' and P is
\* forwarded; with FAKEROOT_ALL the candidate is forwarded (by opendir when
\* FAKEROOT_DIRS is enabled).
C2_ExistencePolicy ==
    (/\ InCall
     /\ ValidRoot
     /\ from_utf8_ok(TheCall.path)
     /\ is_absolute(TheCall.path))
    => LET cand == Candidate(TheCall.path)
           found == exists(fs, cand)
       IN  /\ (~TheCall.panic /\ TheCall.res.ok /\ TheCall.res.val = cand)
                <=> (allowMissing \/ found)
           /\ (~allowMissing /\ ~found) =>
                /\ ~TheCall.res.ok
                /\ TheCall.res.err.text = "not in fake root: "
                /\ TheCall.calls = Untouched(TheCall)
           /\ (allowMissing /\ (TheCall.kind = "opendir" => dirsEnabled)) =>
                TheCall.calls = Real(TheCall.kind, cand, TheCall.args)

C4_FailSafe ==
    InCall
    => /\ ~TheCall.panic
       /\ Len(TheCall.calls) = 1
       /\ TheCall.calls[1].name = TheCall.kind
       /\ TheCall.calls[1].args = TheCall.args
       /\ (~TheCall.res.ok => TheCall.calls[1].path = TheCall.path)

\* C5: with FAKEROOT unset, relative or naming nothing on disk, every call
\* of every kind forwards the original path and arguments, whatever
\* FAKEROOT_ALL and FAKEROOT_DIRS are, and does not panic.
C5_NoRootPassThrough ==
    (InCall /\ ~ValidRoot)
    => /\ ~TheCall.panic
       /\ TheCall.calls = Untouched(TheCall)

\* C5 witness: FAKEROOT is unset, FAKEROOT_ALL and FAKEROOT_DIRS are truthy,
\* and opendir of the empty path was forwarded untouched
C5_Witness ==
    /\ InCall
    /\ ~RootSet
    /\ allowMissing
    /\ dirsEnabled
    /\ TheCall.kind = "opendir"
    /\ TheCall.path = <<>>
    /\ TheCall.calls = Untouched(TheCall)

\* C6: the shadow root is resolved at most once per process: every call
\* that looks the root up observes the outcome of the first resolution,
\* also after FAKEROOT or the disk changed.
C6_ResolvedOnce ==
    (InCall /\ TheCall.resolved # None) => TheCall.resolved = firstRoot

\* C7: when FAKEROOT_DEBUG is not truthy a call writes nothing to the
\* diagnostic stream; when it is truthy every call writes at least one line
\* tagged @HOOK@ that is a mapping or a fallback reason.
C7_DebugStream ==
    InCall
    => IF debugEnabled
       THEN \E i \in DOMAIN TheCall.lines :
                /\ TheCall.lines[i].tag = HOOK_TAG
                /\ TheCall.lines[i].kind \in {"mapping", "reason"}
       ELSE TheCall.lines = <<>>

C9_PlainJoin ==
    InCall
    => \A i \in DOMAIN TheCall.calls :
         \/ TheCall.calls[i].path = TheCall.path
         \/ /\ RootSet
            /\ is_absolute(TheCall.path)
            /\ TheCall.calls[i].path = Candidate(TheCall.path)

\* C10: with FAKEROOT_DIRS disabled, opendir uses the original path without
\* reading FAKEROOT, without any existence check and without writing a
\* diagnostic line, also when FAKEROOT_DEBUG is truthy.
C10_OpendirNoLookup ==
    (InCall /\ TheCall.kind = "opendir" /\ ~dirsEnabled)
    => /\ TheCall.calls = Untouched(TheCall)
       /\ ENV_FAKEROOT \notin Range(TheCall.reads)
       /\ TheCall.stats = <<>>
       /\ TheCall.lines = <<>>

====
